---- MODULE Spec2Model ----
(***************************************************************************)
(* Earthquake Triangulator (earthquake.py): synthetic scenario generation, *)
(* relative arrival times, residual model and the least-squares solve.     *)
(*                                                                         *)
(* Numbers.  Lengths are metres (integers).  Times are integers counted in *)
(* ticks of 1/TicksPerSec second; a float quotient a / b is the integer    *)
(* quotient, a float square root the integer square root.  Indices are the *)
(* program's (0-based); the i-th element of a Python array a is a[i + 1].  *)
(***************************************************************************)
EXTENDS Integers, Sequences, FiniteSets, TLC

VARIABLES pc, n, rad, dmin, dmax, v,
          stations, true_point, true_times, ref_index,
          noisy_times, measured_rel_times,
          base_time, station_times,
          x, nfev, evals, res_opt,
          est_point, error, printed

vars == <<pc, n, rad, dmin, dmax, v, stations, true_point, true_times,
          ref_index, noisy_times, measured_rel_times, base_time,
          station_times, x, nfev, evals, res_opt, est_point, error, printed>>

----------------------------------------------------------------------------
(* Units and bounds *)

TicksPerSec == 10000

\* evaluations of the residual function one least_squares call may make
MaxEvals == 2

----------------------------------------------------------------------------
(* Vector arithmetic of numpy on 3-vectors and on arrays *)

\* floor of the square root, by Newton's iteration from above
RECURSIVE ISqrtIter(_, _)
ISqrtIter(k, r) ==
    LET nxt == (r + k \div r) \div 2
    IN  IF nxt >= r THEN r ELSE ISqrtIter(k, nxt)

ISqrt(k) == IF k = 0 THEN 0 ELSE ISqrtIter(k, 46340)

VecSub(a, b) == <<a[1] - b[1], a[2] - b[2], a[3] - b[3]>>

VecAdd(a, b) == <<a[1] + b[1], a[2] + b[2], a[3] + b[3]>>

\* np.linalg.norm of one row
norm(d) == ISqrt(d[1] * d[1] + d[2] * d[2] + d[3] * d[3])

RECURSIVE SumSeq(_)
SumSeq(s) == IF s = <<>> THEN 0 ELSE Head(s) + SumSeq(Tail(s))

\* np.linalg.norm(stations - p, axis=1) / v
travel_times(sts, p, speed) ==
    [i \in 1..Len(sts) |-> (norm(VecSub(sts[i], p)) * TicksPerSec) \div speed]

\* an argmin that returns the last occurrence of the minimum
argmin_last(t) ==
    (CHOOSE i \in 1..Len(t) :
        /\ \A j \in 1..Len(t) : t[i] <= t[j]
        /\ \A j \in (i + 1)..Len(t) : t[j] > t[i]) - 1

\* np.argmin: 0-based index of the first occurrence of the minimum
argmin(t) ==
    (CHOOSE i \in 1..Len(t) :
        /\ \A j \in 1..Len(t) : t[i] <= t[j]
        /\ \A j \in 1..(i - 1) : t[j] > t[i]) - 1

\* np.mean(stations, axis=0)
mean_axis0(sts) ==
    <<SumSeq([i \in 1..Len(sts) |-> sts[i][1]]) \div Len(sts),
      SumSeq([i \in 1..Len(sts) |-> sts[i][2]]) \div Len(sts),
      SumSeq([i \in 1..Len(sts) |-> sts[i][3]]) \div Len(sts)>>

----------------------------------------------------------------------------
(* Random draws: the finite samples of each random quantity *)

InDisk(p, r) == p[1] * p[1] + p[2] * p[2] <= r * r

\* joint draws of (r, theta, z) for all stations of one call
StationSamples ==
    { <<<<10000, 0, 500>>, <<-10000, 0, -500>>, <<0, 10000, 0>>,
        <<0, -10000, 500>>, <<5000, 5000, -500>>, <<-5000, 5000, 0>>,
        <<0, 0, 0>>>>,
      <<<<-9000, 0, 0>>, <<-6000, 0, 0>>, <<-3000, 0, 0>>, <<0, 0, 0>>,
        <<3000, 0, 0>>, <<6000, 0, 0>>, <<9000, 0, 0>>>>,
      <<<<10000, 0, 0>>, <<-10000, 0, 0>>, <<0, 10000, 0>>,
        <<0, -10000, 0>>, <<15000, 0, 0>>, <<0, 15000, 0>>,
        <<-15000, 0, 0>>>>,
      <<<<0, 0, 0>>, <<10000, 0, 0>>, <<0, 10000, 0>>, <<0, 0, -500>>>>,
      <<<<0, 0, 0>>, <<5000, 0, 0>>, <<10000, 0, 0>>>> }

\* draws of the true point's (x, y)
TrueXY == { <<0, 0>>, <<3000, 4000>> }

\* draws of U in np.random.uniform(low, high) = low + (high - low) * U,
\* as halves: U = 0 and U = 1/2
UniformHalves == {0, 1}

\* draws of one component of np.random.normal(0, noise_std): one standard
\* deviation below and above the mean
NoiseVals(std) == {0 - std, std}

\* draws of generate_random_datetime: a whole second of the drawn minute
BaseSecs == {59}

\* points around the working estimate at which the solver may evaluate
Steps == { <<0, 0, 0>>, <<1000, 0, 0>>, <<0, 0, -1000>> }

\* least_squares' documented termination statuses
LsStatus == {0, 1, 2, 3, 4}

----------------------------------------------------------------------------
(* The program's functions *)

gen_station_positions(cnt, r) ==
    { s \in StationSamples :
        /\ Len(s) = cnt
        /\ \A i \in 1..Len(s) :
              InDisk(s[i], r) /\ s[i][3] >= -500 /\ s[i][3] <= 500 }

gen_true_point(r, lo, hi) ==
    { <<xy[1], xy[2], 0 - (lo + ((hi - lo) * u) \div 2)>> :
        xy \in { q \in TrueXY : InDisk(q, r) }, u \in UniformHalves }

\* a residual function that predicts relative to station 0, not to ref
residuals_time_ref0(p, sts, rel_times, speed, ref) ==
    LET t_pred == travel_times(sts, p, speed)
        t_rel_pred == [i \in 1..Len(sts) |-> t_pred[i] - t_pred[1]]
    IN  [i \in 1..Len(sts) |-> t_rel_pred[i] - rel_times[i]]

residuals_time(p, sts, rel_times, speed, ref) ==
    LET t_pred == travel_times(sts, p, speed)
        t_rel_pred == [i \in 1..Len(sts) |-> t_pred[i] - t_pred[ref + 1]]
    IN  [i \in 1..Len(sts) |-> t_rel_pred[i] - rel_times[i]]

\* relative times taken against station 0, and not taken at all
rel_to_first(noisy, ref) == [i \in 1..Len(noisy) |-> noisy[i] - noisy[1]]

rel_unreferenced(noisy, ref) == [i \in 1..Len(noisy) |-> noisy[i]]

\* noisy_times - noisy_times[ref_index]
relative_times(noisy, ref) ==
    [i \in 1..Len(noisy) |-> noisy[i] - noisy[ref + 1]]

\* strftime('%Y-%m-%d %H:%M:%S.%f')[:-3]: the timestamp cut to milliseconds
format_ms(t) == t \div (TicksPerSec \div 1000)

----------------------------------------------------------------------------
(* main *)

NoPoint == <<>>

InitCommon ==
    /\ pc = "gen_stations"
    /\ stations = <<>>
    /\ true_point = NoPoint
    /\ true_times = <<>>
    /\ ref_index = -1
    /\ noisy_times = <<>>
    /\ measured_rel_times = <<>>
    /\ base_time = -1
    /\ station_times = <<>>
    /\ x = NoPoint
    /\ nfev = 0
    /\ evals = {}
    /\ res_opt = [x |-> NoPoint, status |-> -2]
    /\ est_point = NoPoint
    /\ error = -1
    /\ printed = [first |-> -1, times |-> <<>>]

\* the configuration main sets
Init ==
    /\ n = 7
    /\ rad = 30000
    /\ dmin = 500
    /\ dmax = 10000
    /\ v = 5000
    /\ InitCommon

GenStations ==
    /\ pc = "gen_stations"
    /\ \E s \in gen_station_positions(n, rad) : stations' = s
    /\ pc' = "gen_true_point"
    /\ UNCHANGED <<n, rad, dmin, dmax, v, true_point, true_times, ref_index,
                   noisy_times, measured_rel_times, base_time, station_times,
                   x, nfev, evals, res_opt, est_point, error, printed>>

GenTruePoint ==
    /\ pc = "gen_true_point"
    /\ \E p \in gen_true_point(rad, dmin, dmax) : true_point' = p
    /\ pc' = "true_times"
    /\ UNCHANGED <<n, rad, dmin, dmax, v, stations, true_times, ref_index,
                   noisy_times, measured_rel_times, base_time, station_times,
                   x, nfev, evals, res_opt, est_point, error, printed>>

TrueTimes ==
    /\ pc = "true_times"
    /\ true_times' = travel_times(stations, true_point, v)
    /\ ref_index' = argmin(true_times')
    /\ pc' = "noise"
    /\ UNCHANGED <<n, rad, dmin, dmax, v, stations, true_point,
                   noisy_times, measured_rel_times, base_time, station_times,
                   x, nfev, evals, res_opt, est_point, error, printed>>

Noise ==
    /\ pc = "noise"
    /\ LET noise_std == TicksPerSec \div 100
       IN  \E e \in [1..Len(true_times) -> NoiseVals(noise_std)] :
              noisy_times' = [i \in 1..Len(true_times) |-> true_times[i] + e[i]]
    /\ measured_rel_times' = relative_times(noisy_times', ref_index)
    /\ pc' = "timestamps"
    /\ UNCHANGED <<n, rad, dmin, dmax, v, stations, true_point, true_times,
                   ref_index, base_time, station_times,
                   x, nfev, evals, res_opt, est_point, error, printed>>

Timestamps ==
    /\ pc = "timestamps"
    /\ \E s \in BaseSecs : base_time' = s * TicksPerSec
    /\ station_times' = [i \in 1..Len(measured_rel_times) |->
                            base_time' + measured_rel_times[i]]
    /\ printed' = [first |-> ref_index + 1,
                   times |-> [i \in 1..Len(station_times') |->
                                 format_ms(station_times'[i])]]
    /\ pc' = "ls_start"
    /\ UNCHANGED <<n, rad, dmin, dmax, v, stations, true_point, true_times,
                   ref_index, noisy_times, measured_rel_times,
                   x, nfev, evals, res_opt, est_point, error>>

\* least_squares evaluates the residual function at the initial guess
LsStart ==
    /\ pc = "ls_start"
    /\ LET centroid == mean_axis0(stations)
           p0 == <<centroid[1], centroid[2], -5000>>
       IN  /\ x' = p0
           /\ evals' = {[p |-> p0,
                         f |-> residuals_time(p0, stations, measured_rel_times,
                                              v, ref_index)]}
    /\ nfev' = 1
    /\ pc' = "ls_iter"
    /\ UNCHANGED <<n, rad, dmin, dmax, v, stations, true_point, true_times,
                   ref_index, noisy_times, measured_rel_times, base_time,
                   station_times, res_opt, est_point, error, printed>>

\* a residual function that shifts its station array in place
\* (stations -= p) while evaluating
LsEvalInPlace ==
    /\ pc = "ls_iter"
    /\ nfev < MaxEvals
    /\ \E step \in Steps :
          LET p == VecAdd(x, step)
              moved == [i \in 1..Len(stations) |-> VecSub(stations[i], p)]
          IN  /\ evals' = evals \cup
                     {[p |-> p,
                       f |-> residuals_time(<<0, 0, 0>>, moved,
                                            measured_rel_times, v, ref_index)]}
              /\ stations' = moved
              /\ x' \in {x, p}
    /\ nfev' = nfev + 1
    /\ pc' = "ls_iter"
    /\ UNCHANGED <<n, rad, dmin, dmax, v, true_point, true_times,
                   ref_index, noisy_times, measured_rel_times, base_time,
                   station_times, res_opt, est_point, error, printed>>

\* one more evaluation of the residual function by least_squares, at a point
\* of its choice near the working estimate; the estimate moves there or stays
LsEval ==
    /\ pc = "ls_iter"
    /\ nfev < MaxEvals
    /\ \E step \in Steps :
          LET p == VecAdd(x, step)
          IN  /\ evals' = evals \cup
                     {[p |-> p,
                       f |-> residuals_time(p, stations, measured_rel_times,
                                            v, ref_index)]}
              /\ x' \in {x, p}
    /\ nfev' = nfev + 1
    /\ pc' = "ls_iter"
    /\ UNCHANGED <<n, rad, dmin, dmax, v, stations, true_point, true_times,
                   ref_index, noisy_times, measured_rel_times, base_time,
                   station_times, res_opt, est_point, error, printed>>

\* least_squares returns its result object: the estimate and a status
LsReturn ==
    /\ pc = "ls_iter"
    /\ \E st \in LsStatus : res_opt' = [x |-> x, status |-> st]
    /\ pc' = "report"
    /\ UNCHANGED <<n, rad, dmin, dmax, v, stations, true_point, true_times,
                   ref_index, noisy_times, measured_rel_times, base_time,
                   station_times, x, nfev, evals, est_point, error, printed>>

\* est_point = res_opt.x and the three result lines main prints
Report ==
    /\ pc = "report"
    /\ est_point' = res_opt.x
    /\ error' = norm(VecSub(true_point, est_point'))
    /\ printed' = [first |-> printed.first,
                   times |-> printed.times,
                   true_point |-> true_point,
                   est_point |-> est_point',
                   error |-> error']
    /\ pc' = "done"
    /\ UNCHANGED <<n, rad, dmin, dmax, v, stations, true_point, true_times,
                   ref_index, noisy_times, measured_rel_times, base_time,
                   station_times, x, nfev, evals, res_opt>>

Next ==
    \/ GenStations
    \/ GenTruePoint
    \/ TrueTimes
    \/ Noise
    \/ Timestamps
    \/ LsStart
    \/ LsEval
    \/ LsReturn
    \/ Report

Spec == Init /\ [][Next]_vars

----------------------------------------------------------------------------
(* The two generator functions called with arbitrary arguments *)

ArgN == {3, 4, 7}

ArgDepth == {500, 5000, 10000}

InitGen ==
    /\ n \in ArgN
    /\ rad = 30000
    /\ dmin \in ArgDepth
    /\ dmax \in ArgDepth
    /\ v = 5000
    /\ InitCommon

NextGen ==
    \/ GenStations
    \/ GenTruePoint

SpecGen == InitGen /\ [][NextGen]_vars

----------------------------------------------------------------------------
(* Properties *)

Outcomes == {"CONVERGED", "MAX_ITERS_EXCEEDED", "DEGENERATE", "DIVERGED"}

Shift(t, d) == [i \in 1..Len(t) |-> t[i] + d]

ShiftVals == {-100, 100, 250}

Cost(f) == SumSeq([i \in 1..Len(f) |-> f[i] * f[i]])

\* stations span fewer than three dimensions (coordinates are multiples of 500)
Det3(a, b, c) ==
    a[1] * (b[2] * c[3] - b[3] * c[2])
    - a[2] * (b[1] * c[3] - b[3] * c[1])
    + a[3] * (b[1] * c[2] - b[2] * c[1])

Rel500(sts, i) ==
    <<(sts[i][1] - sts[1][1]) \div 500, (sts[i][2] - sts[1][2]) \div 500,
      (sts[i][3] - sts[1][3]) \div 500>>

Coplanar(sts) ==
    \A i, j, k \in 1..Len(sts) :
        Det3(Rel500(sts, i), Rel500(sts, j), Rel500(sts, k)) = 0

Degenerate(sts) == Len(sts) < 4 \/ Coplanar(sts)

InvalidConfiguration == v <= 0 \/ n < 4 \/ dmin > dmax

\* C1: every evaluation of the residual function at a point p returns a
\* vector of length n whose i-th entry is
\* (dist(stations[i], p)/v - dist(stations[refIndex], p)/v) - measured[i],
\* and whose entry at refIndex is exactly -measured[refIndex].
C1_ResidualFormula ==
    pc = "ls_iter" => \A e \in evals :
        /\ Len(e.f) = n
        /\ \A i \in 1..n :
              e.f[i] = ((norm(VecSub(stations[i], e.p)) * TicksPerSec) \div v
                        - (norm(VecSub(stations[ref_index + 1], e.p))
                             * TicksPerSec) \div v)
                       - measured_rel_times[i]
        /\ e.f[ref_index + 1] = 0 - measured_rel_times[ref_index + 1]

C1_Witness ==
    /\ pc = "ls_iter"
    /\ Cardinality(evals) >= 2
    /\ ref_index > 0
    /\ \E e \in evals : \E i \in 1..n : e.f[i] # 0 /\ i # ref_index + 1

\* C3: when main has finished, the estimate it reported carries one of the
\* four termination outcomes.
C3_OutcomeReported ==
    pc = "done" =>
        /\ "status" \in DOMAIN printed
        /\ printed.status \in Outcomes

\* C4: a solve over an under-determined station set (fewer than 4 stations,
\* or collinear/coplanar stations) ends with a DEGENERATE outcome and no
\* estimate.
C4_DegenerateDetected ==
    (pc = "done" /\ Degenerate(stations)) =>
        /\ est_point = NoPoint
        /\ "status" \in DOMAIN printed
        /\ printed.status = "DEGENERATE"

\* C5: with an invalid configuration (v <= 0, n < 4 or depthMin > depthMax)
\* no stations and no true point are produced.
C5_InvalidRejected ==
    InvalidConfiguration => (stations = <<>> /\ true_point = NoPoint)

\* C6 (as stated): adding a constant to every measured relative time, the
\* reference index staying the index of the minimum, does not change which
\* of two evaluated points has the lower cost, so not the minimiser either.
C6_ShiftKeepsEstimate ==
    pc = "ls_iter" => \A d \in ShiftVals : \A e1, e2 \in evals :
        LET g(p) == residuals_time(p, stations, Shift(measured_rel_times, d),
                                   v, ref_index)
        IN  (Cost(e1.f) <= Cost(e2.f)) <=> (Cost(g(e1.p)) <= Cost(g(e2.p)))

\* C6 (amended): adding a constant to every noisy arrival time before the
\* relative times are formed leaves the measured relative times unchanged;
\* adding it to the measured relative times handed to the residual function
\* shifts every residual by minus that constant.
C6_ShiftBeforeReferencing ==
    \A d \in ShiftVals :
        /\ measured_rel_times # <<>> =>
              relative_times(Shift(noisy_times, d), ref_index)
                  = measured_rel_times
        /\ pc = "ls_iter" =>
              \A e \in evals :
                  residuals_time(e.p, stations, Shift(measured_rel_times, d),
                                 v, ref_index)
                      = [i \in 1..n |-> e.f[i] - d]

C6_Witness ==
    /\ pc = "ls_iter"
    /\ Cardinality(evals) >= 2
    /\ \E i \in 1..n : measured_rel_times[i] < 0

\* C7: the measured relative time of the reference station is exactly 0
\* for every noise draw.
C7_RefRelativeTimeZero ==
    measured_rel_times # <<>> => measured_rel_times[ref_index + 1] = 0

C7_Witness ==
    /\ measured_rel_times # <<>>
    /\ ref_index > 0
    /\ noisy_times[ref_index + 1] # true_times[ref_index + 1]
    /\ noisy_times[1] # noisy_times[ref_index + 1]

\* C8: the reference index is the lowest index of the minimum true travel
\* time, lies in [0, n), and stays so after noise is added.
C8_RefIsArgminOfTrueTimes ==
    ref_index # -1 =>
        /\ 0 <= ref_index /\ ref_index < n
        /\ \A j \in 1..n : true_times[ref_index + 1] <= true_times[j]
        /\ \A j \in 1..ref_index : true_times[j] > true_times[ref_index + 1]

C8_Witness ==
    /\ noisy_times # <<>>
    /\ \E j \in (ref_index + 2)..n : true_times[j] = true_times[ref_index + 1]
    /\ \E j \in 1..n : noisy_times[j] < noisy_times[ref_index + 1]

\* C9: no step of the solve changes the station list, the measured relative
\* times, v or refIndex, and evaluations at the same point agree.
C9_SolveFrame ==
    [][(pc \in {"ls_start", "ls_iter"}) =>
          (stations' = stations /\ measured_rel_times' = measured_rel_times
           /\ v' = v /\ ref_index' = ref_index
           /\ (\A e1, e2 \in evals' : (e1.p = e2.p) => (e1.f = e2.f)))]_vars

C9_Witness ==
    /\ pc = "ls_iter"
    /\ nfev >= 2
    /\ Cardinality(evals) < nfev

\* C10: no station's arrival time is earlier than that of the station
\* announced as first: every measured relative time is >= 0 and no
\* timestamp precedes base_time.
C10_RefStationEarliest ==
    station_times # <<>> =>
        \A i \in 1..n :
            /\ measured_rel_times[i] >= 0
            /\ station_times[i] >= base_time
            /\ printed.times[i] >= format_ms(base_time)

====
